---- MODULE Spec2Model ----
(***************************************************************************)
(* Model of omega_core_rs/src/lib.rs: the GestureFsmRs hysteresis state    *)
(* machine (six states, dwell accumulator, coast timer).                   *)
(*                                                                         *)
(* Number representation.  The f64 fields hold millisecond values that are *)
(* sums and differences of the frame timestamps and of the configured      *)
(* limits; the model draws these from integers, on which f64 arithmetic is *)
(* exact.  Confidences are modelled in hundredths (0.64 is 64, 0.50 is 50, *)
(* 1.0 is 100).  f64::NAN is the value NaN below; every comparison with it *)
(* is false, as in IEEE 754 (operators Ge and Lt).                         *)
(***************************************************************************)
EXTENDS Integers, Sequences, FiniteSets, TLC

\* ------------------------------------------------------------------ bounds
\* Frame timestamps are multiples of 50 ms.  Sessions whose timestamps may go
\* backwards use 0 .. 50 * MaxTick; sessions with non-decreasing timestamps
\* use 0 .. 50 * MaxMonoTick.
MaxTick == 2

MaxMonoTick == 6

\* Sessions whose frames keep arriving with strictly increasing timestamps
\* use 0 .. 50 * MaxLiveTick.
MaxLiveTick == 3

\* With timestamps that go backwards the dwell accumulator is unbounded in
\* both directions; frames are explored while |dwell| stays within MaxDwell.
MaxDwell == 100

\* ------------------------------------------------------- program constants
NaN == -999999

VARIABLES state, conf_high, conf_low, dwell_limit_ready_ms,
          dwell_limit_commit_ms, coast_timeout_ms, current_confidence,
          dwell_accumulator_ms, coast_elapsed_ms, last_frame_ms,
          last_call, first_frame_ms, hold_ms, coast_time_ms

vars == <<state, conf_high, conf_low, dwell_limit_ready_ms,
          dwell_limit_commit_ms, coast_timeout_ms, current_confidence,
          dwell_accumulator_ms, coast_elapsed_ms, last_frame_ms,
          last_call, first_frame_ms, hold_ms, coast_time_ms>>

\* enum FsmStateType
FsmStateType == {"Idle", "IdleCoast", "Ready", "ReadyCoast", "CommitPointer", "CommitCoast"}

\* ------------------------------------------------------------------ inputs
\* gesture labels: the two the code names and one it does not
Gestures == {"open_palm", "closed_fist", "thumbs_up"}

\* confidences in hundredths: below conf_low, at conf_low (inside the inert
\* band), at conf_high, the maximum, and NaN
Confidences == {30, 50, 64, 100, NaN}

Timestamps == {50 * k : k \in 0..MaxTick}

MonoTimestamps == {50 * k : k \in 0..MaxMonoTick}

LiveTimestamps == {50 * k : k \in 0..MaxLiveTick}

\* Option<f64>: None is the empty sequence, Some(v) is <<v>>
None == <<>>

Some(v) == <<v>>

DwellOptions == {None, Some(0), Some(100)}

CoastOptions == {None, Some(100)}

\* ----------------------------------------------------------- f64 helpers
is_nan(x) == x = NaN

\* a >= b on f64
Ge(a, b) == (~is_nan(a)) /\ (~is_nan(b)) /\ a >= b

\* a < b on f64
Lt(a, b) == (~is_nan(a)) /\ (~is_nan(b)) /\ a < b

\* f64::max(a, 0.0) for non-NaN a
Max0(a) == IF a >= 0 THEN a ELSE 0

\* ---------------------------------------------------------- the struct
\* the GestureFsmRs value held in the variables
Self ==
  [state |-> state, conf_high |-> conf_high, conf_low |-> conf_low,
   dwell_limit_ready_ms |-> dwell_limit_ready_ms,
   dwell_limit_commit_ms |-> dwell_limit_commit_ms,
   coast_timeout_ms |-> coast_timeout_ms,
   current_confidence |-> current_confidence,
   dwell_accumulator_ms |-> dwell_accumulator_ms,
   coast_elapsed_ms |-> coast_elapsed_ms,
   last_frame_ms |-> last_frame_ms]

\* GestureFsmRs::new
new ==
  [state |-> "Idle", conf_high |-> 64, conf_low |-> 50,
   dwell_limit_ready_ms |-> 100, dwell_limit_commit_ms |-> 100,
   coast_timeout_ms |-> 500, current_confidence |-> 0,
   dwell_accumulator_ms |-> 0, coast_elapsed_ms |-> 0,
   last_frame_ms |-> NaN]

\* GestureFsmRs::get_state
get_state(s) == s.state

\* configure whose second argument overwrites the ready limit
configure_commit_into_ready(s, dwell_ready_ms, dwell_commit_ms, coast_timeout) ==
  LET s1 == IF dwell_ready_ms # None
            THEN [s EXCEPT !.dwell_limit_ready_ms = dwell_ready_ms[1]] ELSE s
      s2 == IF dwell_commit_ms # None
            THEN [s1 EXCEPT !.dwell_limit_ready_ms = dwell_commit_ms[1]] ELSE s1
      s3 == IF coast_timeout # None
            THEN [s2 EXCEPT !.coast_timeout_ms = coast_timeout[1]] ELSE s2
  IN s3

\* GestureFsmRs::configure
configure(s, dwell_ready_ms, dwell_commit_ms, coast_timeout) ==
  LET s1 == IF dwell_ready_ms # None
            THEN [s EXCEPT !.dwell_limit_ready_ms = dwell_ready_ms[1]] ELSE s
      s2 == IF dwell_commit_ms # None
            THEN [s1 EXCEPT !.dwell_limit_commit_ms = dwell_commit_ms[1]] ELSE s1
      s3 == IF coast_timeout # None
            THEN [s2 EXCEPT !.coast_timeout_ms = coast_timeout[1]] ELSE s2
  IN s3

\* force_coast that also restarts the coast timer on entering a Coast state
force_coast_resets_elapsed(s) ==
  CASE s.state = "Idle" -> [s EXCEPT !.state = "IdleCoast", !.coast_elapsed_ms = 0]
    [] s.state = "Ready" -> [s EXCEPT !.state = "ReadyCoast", !.coast_elapsed_ms = 0]
    [] s.state = "CommitPointer" -> [s EXCEPT !.state = "CommitCoast", !.coast_elapsed_ms = 0]
    [] OTHER -> s

\* GestureFsmRs::force_coast
force_coast(s) ==
  CASE s.state = "Idle" -> [s EXCEPT !.state = "IdleCoast"]
    [] s.state = "Ready" -> [s EXCEPT !.state = "ReadyCoast"]
    [] s.state = "CommitPointer" -> [s EXCEPT !.state = "CommitCoast"]
    [] OTHER -> s

\* GestureFsmRs::is_coast_state
is_coast_state(s) == s.state \in {"IdleCoast", "ReadyCoast", "CommitCoast"}

\* GestureFsmRs::transition_to
transition_to(s, new_state) ==
  IF s.state = "Idle" /\ new_state = "CommitPointer"
  THEN s
  ELSE [s EXCEPT !.state = new_state]

\* handle_idle that lets a confident "closed_fist" commit by assigning the
\* state directly instead of going through transition_to
handle_idle_direct_commit(s, gesture, delta_ms) ==
  IF gesture = "closed_fist" /\ Ge(s.current_confidence, s.conf_high)
  THEN [s EXCEPT !.state = "CommitPointer", !.dwell_accumulator_ms = 0]
  ELSE IF gesture = "open_palm" /\ Ge(s.current_confidence, s.conf_high)
  THEN LET s1 == [s EXCEPT !.dwell_accumulator_ms = @ + delta_ms]
       IN IF s1.dwell_accumulator_ms >= s1.dwell_limit_ready_ms
          THEN [transition_to(s1, "Ready") EXCEPT !.dwell_accumulator_ms = 0]
          ELSE s1
  ELSE LET s1 == [s EXCEPT !.dwell_accumulator_ms = Max0(@ - (delta_ms * 2))]
       IN IF Lt(s1.current_confidence, s1.conf_low)
          THEN transition_to(s1, "IdleCoast")
          ELSE s1

\* handle_idle that accumulates dwell at twice the frame delta
handle_idle_double_rate(s, gesture, delta_ms) ==
  IF gesture = "open_palm" /\ Ge(s.current_confidence, s.conf_high)
  THEN LET s1 == [s EXCEPT !.dwell_accumulator_ms = @ + (delta_ms * 2)]
       IN IF s1.dwell_accumulator_ms >= s1.dwell_limit_ready_ms
          THEN [transition_to(s1, "Ready") EXCEPT !.dwell_accumulator_ms = 0]
          ELSE s1
  ELSE LET s1 == [s EXCEPT !.dwell_accumulator_ms = Max0(@ - (delta_ms * 2))]
       IN IF Lt(s1.current_confidence, s1.conf_low)
          THEN transition_to(s1, "IdleCoast")
          ELSE s1

\* handle_idle that compares the dwell with > instead of >=
handle_idle_strict_limit(s, gesture, delta_ms) ==
  IF gesture = "open_palm" /\ Ge(s.current_confidence, s.conf_high)
  THEN LET s1 == [s EXCEPT !.dwell_accumulator_ms = @ + delta_ms]
       IN IF s1.dwell_accumulator_ms > s1.dwell_limit_ready_ms
          THEN [transition_to(s1, "Ready") EXCEPT !.dwell_accumulator_ms = 0]
          ELSE s1
  ELSE LET s1 == [s EXCEPT !.dwell_accumulator_ms = Max0(@ - (delta_ms * 2))]
       IN IF Lt(s1.current_confidence, s1.conf_low)
          THEN transition_to(s1, "IdleCoast")
          ELSE s1

\* GestureFsmRs::handle_idle
handle_idle(s, gesture, delta_ms) ==
  IF gesture = "open_palm" /\ Ge(s.current_confidence, s.conf_high)
  THEN LET s1 == [s EXCEPT !.dwell_accumulator_ms = @ + delta_ms]
       IN IF s1.dwell_accumulator_ms >= s1.dwell_limit_ready_ms
          THEN [transition_to(s1, "Ready") EXCEPT !.dwell_accumulator_ms = 0]
          ELSE s1
  ELSE LET s1 == [s EXCEPT !.dwell_accumulator_ms = Max0(@ - (delta_ms * 2))]
       IN IF Lt(s1.current_confidence, s1.conf_low)
          THEN transition_to(s1, "IdleCoast")
          ELSE s1

\* GestureFsmRs::handle_idle_coast
handle_idle_coast(s, gesture) ==
  IF Ge(s.current_confidence, s.conf_low)
  THEN transition_to(s, "Idle")
  ELSE s

\* handle_ready that does not reset the dwell when it commits
handle_ready_commit_keeps_dwell(s, gesture, delta_ms) ==
  IF gesture = "closed_fist" /\ Ge(s.current_confidence, s.conf_high)
  THEN LET s1 == [s EXCEPT !.dwell_accumulator_ms = @ + delta_ms]
       IN IF s1.dwell_accumulator_ms >= s1.dwell_limit_commit_ms
          THEN transition_to(s1, "CommitPointer")
          ELSE s1
  ELSE IF gesture # "open_palm" /\ gesture # "closed_fist"
  THEN [transition_to(s, "Idle") EXCEPT !.dwell_accumulator_ms = 0]
  ELSE IF Lt(s.current_confidence, s.conf_low)
  THEN transition_to(s, "ReadyCoast")
  ELSE [s EXCEPT !.dwell_accumulator_ms = Max0(@ - (delta_ms * 2))]

\* handle_ready that tests the confidence for coasting before the label
handle_ready_coast_first(s, gesture, delta_ms) ==
  IF gesture = "closed_fist" /\ Ge(s.current_confidence, s.conf_high)
  THEN LET s1 == [s EXCEPT !.dwell_accumulator_ms = @ + delta_ms]
       IN IF s1.dwell_accumulator_ms >= s1.dwell_limit_commit_ms
          THEN [transition_to(s1, "CommitPointer") EXCEPT !.dwell_accumulator_ms = 0]
          ELSE s1
  ELSE IF Lt(s.current_confidence, s.conf_low)
  THEN transition_to(s, "ReadyCoast")
  ELSE IF gesture # "open_palm" /\ gesture # "closed_fist"
  THEN [transition_to(s, "Idle") EXCEPT !.dwell_accumulator_ms = 0]
  ELSE [s EXCEPT !.dwell_accumulator_ms = Max0(@ - (delta_ms * 2))]

\* GestureFsmRs::handle_ready
handle_ready(s, gesture, delta_ms) ==
  IF gesture = "closed_fist" /\ Ge(s.current_confidence, s.conf_high)
  THEN LET s1 == [s EXCEPT !.dwell_accumulator_ms = @ + delta_ms]
       IN IF s1.dwell_accumulator_ms >= s1.dwell_limit_commit_ms
          THEN [transition_to(s1, "CommitPointer") EXCEPT !.dwell_accumulator_ms = 0]
          ELSE s1
  ELSE IF gesture # "open_palm" /\ gesture # "closed_fist"
  THEN [transition_to(s, "Idle") EXCEPT !.dwell_accumulator_ms = 0]
  ELSE IF Lt(s.current_confidence, s.conf_low)
  THEN transition_to(s, "ReadyCoast")
  ELSE [s EXCEPT !.dwell_accumulator_ms = Max0(@ - (delta_ms * 2))]

\* handle_ready_coast that restarts the dwell on the return to Ready
handle_ready_coast_resets_dwell(s, gesture) ==
  IF Ge(s.current_confidence, s.conf_low)
  THEN [transition_to(s, "Ready") EXCEPT !.dwell_accumulator_ms = 0]
  ELSE s

\* GestureFsmRs::handle_ready_coast
handle_ready_coast(s, gesture) ==
  IF Ge(s.current_confidence, s.conf_low)
  THEN transition_to(s, "Ready")
  ELSE s

\* handle_commit that drops to Idle on an unrecognized label, as handle_ready does
handle_commit_unknown_to_idle(s, gesture, delta_ms) ==
  IF gesture = "open_palm" /\ Ge(s.current_confidence, s.conf_high)
  THEN [transition_to(s, "Ready") EXCEPT !.dwell_accumulator_ms = 0]
  ELSE IF gesture # "open_palm" /\ gesture # "closed_fist"
  THEN [transition_to(s, "Idle") EXCEPT !.dwell_accumulator_ms = 0]
  ELSE IF Lt(s.current_confidence, s.conf_low)
  THEN transition_to(s, "CommitCoast")
  ELSE s

\* GestureFsmRs::handle_commit
handle_commit(s, gesture, delta_ms) ==
  IF gesture = "open_palm" /\ Ge(s.current_confidence, s.conf_high)
  THEN [transition_to(s, "Ready") EXCEPT !.dwell_accumulator_ms = 0]
  ELSE IF Lt(s.current_confidence, s.conf_low)
  THEN transition_to(s, "CommitCoast")
  ELSE s

\* GestureFsmRs::handle_commit_coast
handle_commit_coast(s, gesture) ==
  IF Ge(s.current_confidence, s.conf_low)
  THEN transition_to(s, "CommitPointer")
  ELSE s

\* frame delta that measures the first frame from time 0
frame_delta_from_zero(s, now_ms) ==
  IF is_nan(s.last_frame_ms) THEN now_ms ELSE now_ms - s.last_frame_ms

\* process_frame, line 68: the inter-frame delta
frame_delta(s, now_ms) ==
  IF is_nan(s.last_frame_ms) THEN 0 ELSE now_ms - s.last_frame_ms

\* dispatch that runs the handler of the new state as well when the first
\* handler changed the state
dispatch_chained(s, gesture, delta_ms) ==
  LET once(x) ==
        CASE x.state = "Idle" -> handle_idle(x, gesture, delta_ms)
          [] x.state = "IdleCoast" -> handle_idle_coast(x, gesture)
          [] x.state = "Ready" -> handle_ready(x, gesture, delta_ms)
          [] x.state = "ReadyCoast" -> handle_ready_coast(x, gesture)
          [] x.state = "CommitPointer" -> handle_commit(x, gesture, delta_ms)
          [] x.state = "CommitCoast" -> handle_commit_coast(x, gesture)
      s1 == once(s)
  IN IF s1.state # s.state THEN once(s1) ELSE s1

\* process_frame, lines 83-90: dispatch on the state
dispatch(s, gesture, delta_ms) ==
  CASE s.state = "Idle" -> handle_idle(s, gesture, delta_ms)
    [] s.state = "IdleCoast" -> handle_idle_coast(s, gesture)
    [] s.state = "Ready" -> handle_ready(s, gesture, delta_ms)
    [] s.state = "ReadyCoast" -> handle_ready_coast(s, gesture)
    [] s.state = "CommitPointer" -> handle_commit(s, gesture, delta_ms)
    [] s.state = "CommitCoast" -> handle_commit_coast(s, gesture)

\* process_frame without the early return after the coast-timeout reset
process_frame_no_return(s, gesture, confidence, now_ms) ==
  LET delta_ms == frame_delta(s, now_ms)
      s1 == [s EXCEPT !.last_frame_ms = now_ms, !.current_confidence = confidence]
  IN IF is_coast_state(s1)
     THEN LET s2 == [s1 EXCEPT !.coast_elapsed_ms = @ + delta_ms]
          IN IF s2.coast_elapsed_ms >= s2.coast_timeout_ms
             THEN dispatch([transition_to(s2, "Idle") EXCEPT !.dwell_accumulator_ms = 0],
                           gesture, delta_ms)
             ELSE dispatch(s2, gesture, delta_ms)
     ELSE dispatch([s1 EXCEPT !.coast_elapsed_ms = 0], gesture, delta_ms)

\* process_frame that assigns the frame delta to the coast timer instead of
\* adding it
process_frame_coast_timer_assigned(s, gesture, confidence, now_ms) ==
  LET delta_ms == frame_delta(s, now_ms)
      s1 == [s EXCEPT !.last_frame_ms = now_ms, !.current_confidence = confidence]
  IN IF is_coast_state(s1)
     THEN LET s2 == [s1 EXCEPT !.coast_elapsed_ms = delta_ms]
          IN IF s2.coast_elapsed_ms >= s2.coast_timeout_ms
             THEN [transition_to(s2, "Idle") EXCEPT !.dwell_accumulator_ms = 0]
             ELSE dispatch(s2, gesture, delta_ms)
     ELSE dispatch([s1 EXCEPT !.coast_elapsed_ms = 0], gesture, delta_ms)

\* process_frame that compares the coast timer with > instead of >=
process_frame_strict_timeout(s, gesture, confidence, now_ms) ==
  LET delta_ms == frame_delta(s, now_ms)
      s1 == [s EXCEPT !.last_frame_ms = now_ms, !.current_confidence = confidence]
  IN IF is_coast_state(s1)
     THEN LET s2 == [s1 EXCEPT !.coast_elapsed_ms = @ + delta_ms]
          IN IF s2.coast_elapsed_ms > s2.coast_timeout_ms
             THEN [transition_to(s2, "Idle") EXCEPT !.dwell_accumulator_ms = 0]
             ELSE dispatch(s2, gesture, delta_ms)
     ELSE dispatch([s1 EXCEPT !.coast_elapsed_ms = 0], gesture, delta_ms)

\* process_frame whose coast-timeout reset keeps the dwell accumulator
process_frame_timeout_keeps_dwell(s, gesture, confidence, now_ms) ==
  LET delta_ms == frame_delta(s, now_ms)
      s1 == [s EXCEPT !.last_frame_ms = now_ms, !.current_confidence = confidence]
  IN IF is_coast_state(s1)
     THEN LET s2 == [s1 EXCEPT !.coast_elapsed_ms = @ + delta_ms]
          IN IF s2.coast_elapsed_ms >= s2.coast_timeout_ms
             THEN transition_to(s2, "Idle")
             ELSE dispatch(s2, gesture, delta_ms)
     ELSE dispatch([s1 EXCEPT !.coast_elapsed_ms = 0], gesture, delta_ms)

\* GestureFsmRs::process_frame
process_frame(s, gesture, confidence, now_ms) ==
  LET delta_ms == frame_delta(s, now_ms)
      s1 == [s EXCEPT !.last_frame_ms = now_ms, !.current_confidence = confidence]
  IN IF is_coast_state(s1)
     THEN LET s2 == [s1 EXCEPT !.coast_elapsed_ms = @ + delta_ms]
          IN IF s2.coast_elapsed_ms >= s2.coast_timeout_ms
             THEN [transition_to(s2, "Idle") EXCEPT !.dwell_accumulator_ms = 0]
             ELSE dispatch(s2, gesture, delta_ms)
     ELSE dispatch([s1 EXCEPT !.coast_elapsed_ms = 0], gesture, delta_ms)

\* ---------------------------------------------------------- state machine
\* store a struct value into the variables
Store(s) ==
  /\ state' = s.state
  /\ conf_high' = s.conf_high
  /\ conf_low' = s.conf_low
  /\ dwell_limit_ready_ms' = s.dwell_limit_ready_ms
  /\ dwell_limit_commit_ms' = s.dwell_limit_commit_ms
  /\ coast_timeout_ms' = s.coast_timeout_ms
  /\ current_confidence' = s.current_confidence
  /\ dwell_accumulator_ms' = s.dwell_accumulator_ms
  /\ coast_elapsed_ms' = s.coast_elapsed_ms
  /\ last_frame_ms' = s.last_frame_ms

\* History of the session, not part of the struct: the last call made (its
\* name, its gesture label and the state it started in), and coast_time_ms,
\* the sum of the deltas of the frames processed since the machine most
\* recently entered the Coast variant it is in (0 outside the Coast states).
Called(op, gesture) ==
  /\ last_call' = [op |-> op, gesture |-> gesture, from |-> state]
  /\ coast_time_ms' =
       IF is_coast_state([state |-> state']) /\ state' = state
       THEN coast_time_ms
            + (IF op = "process_frame" /\ ~is_nan(last_frame_ms)
               THEN last_frame_ms' - last_frame_ms ELSE 0)
       ELSE 0

Init ==
  /\ state = new.state
  /\ conf_high = new.conf_high
  /\ conf_low = new.conf_low
  /\ dwell_limit_ready_ms = new.dwell_limit_ready_ms
  /\ dwell_limit_commit_ms = new.dwell_limit_commit_ms
  /\ coast_timeout_ms = new.coast_timeout_ms
  /\ current_confidence = new.current_confidence
  /\ dwell_accumulator_ms = new.dwell_accumulator_ms
  /\ coast_elapsed_ms = new.coast_elapsed_ms
  /\ last_frame_ms = new.last_frame_ms
  /\ last_call = [op |-> "new", gesture |-> "", from |-> "Idle"]
  /\ first_frame_ms = NaN
  /\ hold_ms = NaN
  /\ coast_time_ms = 0

\* one process_frame call with the given inputs
Frame(gesture, confidence, now_ms) ==
  /\ Store(process_frame(Self, gesture, confidence, now_ms))
  /\ Called("process_frame", gesture)

\* process_frame with any timestamp, also one smaller than the previous one
ProcessFrame ==
  \E gesture \in Gestures, confidence \in Confidences, now_ms \in Timestamps :
    /\ Frame(gesture, confidence, now_ms)
    /\ dwell_accumulator_ms' \in (-MaxDwell)..MaxDwell
    /\ UNCHANGED <<first_frame_ms, hold_ms>>

\* process_frame as the host is expected to call it: timestamps never
\* decrease.  These sessions also record two pieces of history:
\* first_frame_ms, the timestamp of their first frame (NaN before it), and
\* hold_ms, the sum of the frame deltas of the current run of consecutive
\* qualifying frames ("open_palm", confidence >= conf_high) that began in
\* Idle with an empty dwell accumulator and has been in Idle at the start
\* of each of its frames (NaN when the last frame was not part of such a run).
ProcessFrameMono ==
  \E gesture \in Gestures, confidence \in Confidences, now_ms \in MonoTimestamps :
    /\ is_nan(last_frame_ms) \/ now_ms >= last_frame_ms
    /\ Frame(gesture, confidence, now_ms)
    /\ first_frame_ms' = IF is_nan(first_frame_ms) THEN now_ms ELSE first_frame_ms
    /\ hold_ms' =
         IF /\ gesture = "open_palm" /\ Ge(confidence, conf_high)
            /\ state = "Idle"
            /\ dwell_accumulator_ms = 0 \/ ~is_nan(hold_ms)
         THEN (IF is_nan(hold_ms) THEN 0 ELSE hold_ms)
              + (IF is_nan(last_frame_ms) THEN 0 ELSE now_ms - last_frame_ms)
         ELSE NaN

ForceCoast ==
  /\ Store(force_coast(Self))
  /\ Called("force_coast", "")
  /\ hold_ms' = NaN
  /\ UNCHANGED first_frame_ms

Configure ==
  \E a \in DwellOptions, b \in DwellOptions, c \in CoastOptions :
    /\ Store(configure(Self, a, b, c))
    /\ Called("configure", "")
    /\ UNCHANGED <<first_frame_ms, hold_ms>>

\* any calls, any timestamps
Next == ProcessFrame \/ ForceCoast \/ Configure

Spec == Init /\ [][Next]_vars

\* any calls, non-decreasing timestamps
NextMono == ProcessFrameMono \/ ForceCoast \/ Configure

SpecMono == Init /\ [][NextMono]_vars

\* default limits (configure is never called), non-decreasing timestamps
NextDefault == ProcessFrameMono \/ ForceCoast

SpecDefault == Init /\ [][NextDefault]_vars

\* process_frame with strictly increasing timestamps
ProcessFrameStrict ==
  \E gesture \in Gestures, confidence \in Confidences, now_ms \in LiveTimestamps :
    /\ is_nan(last_frame_ms) \/ now_ms > last_frame_ms
    /\ Frame(gesture, confidence, now_ms)
    /\ UNCHANGED <<first_frame_ms, hold_ms>>

\* configure that does not touch coast_timeout_ms while the machine coasts
ConfigureNotCoasting ==
  \E a \in DwellOptions, b \in DwellOptions, c \in CoastOptions :
    /\ c = None \/ ~is_coast_state(Self)
    /\ Store(configure(Self, a, b, c))
    /\ Called("configure", "")
    /\ UNCHANGED <<first_frame_ms, hold_ms>>

\* frames keep arriving with strictly increasing timestamps (the host's frame
\* loop), up to the last timestamp of the model; the coast timeout is not
\* reconfigured during a coast
NextLive == ProcessFrameStrict \/ ForceCoast \/ ConfigureNotCoasting

SpecLive == Init /\ [][NextLive]_vars /\ WF_vars(ProcessFrameStrict)

\* ------------------------------------------------------------ properties
CoastStates == {"IdleCoast", "ReadyCoast", "CommitCoast"}

\* the step is a process_frame call
IsFrameStep == last_call'.op = "process_frame"

\* the delta of the frame the step processes, from the timestamps alone
StepDelta == IF is_nan(last_frame_ms) THEN 0 ELSE last_frame_ms' - last_frame_ms

\* C1: no single operation takes the state from Idle to CommitPointer, and a
\* frame with gesture "closed_fist" and confidence 1.0 processed in Idle
\* leaves the state Idle.
C1_NoIdleToCommit ==
  /\ last_call.from = "Idle" => state # "CommitPointer"
  /\ ( /\ last_call.op = "process_frame" /\ last_call.from = "Idle"
       /\ last_call.gesture = "closed_fist" /\ current_confidence = 100 )
     => state = "Idle"

C1_Witness ==
  /\ last_call = [op |-> "process_frame", gesture |-> "closed_fist", from |-> "Idle"]
  /\ current_confidence = 100
  /\ dwell_limit_ready_ms = 0 /\ dwell_limit_commit_ms = 0
  /\ state = "Idle"

\* C2: with the default limits and non-decreasing timestamps the machine is
\* never in CommitPointer or CommitCoast while the last frame is less than
\* dwell_limit_ready_ms + dwell_limit_commit_ms later than the first frame.
C2_CommitNeedsBothDwells ==
  state \in {"CommitPointer", "CommitCoast"} =>
    /\ ~is_nan(first_frame_ms)
    /\ last_frame_ms - first_frame_ms >= dwell_limit_ready_ms + dwell_limit_commit_ms

C2_Witness ==
  /\ state = "CommitPointer"
  /\ first_frame_ms = 50
  /\ last_frame_ms - first_frame_ms = 200

\* C3: over a run of consecutive qualifying frames ("open_palm", confidence
\* >= conf_high) that starts in Idle with dwell 0, after each frame the state
\* is Idle with dwell equal to the summed deltas while the sum is below
\* dwell_limit_ready_ms, and Ready with dwell 0 on the first frame at which
\* the sum reaches it.
C3_ReadyWhenHoldReachesLimit ==
  (last_call.op = "process_frame" /\ ~is_nan(hold_ms)) =>
    IF hold_ms >= dwell_limit_ready_ms
    THEN state = "Ready" /\ dwell_accumulator_ms = 0
    ELSE state = "Idle" /\ dwell_accumulator_ms = hold_ms

C3_Witness ==
  /\ last_call.op = "process_frame" /\ hold_ms = 100
  /\ first_frame_ms = 0 /\ last_frame_ms = 100
  /\ current_confidence = 64
  /\ dwell_limit_ready_ms = 100
  /\ state = "Ready"

\* C4: from any Coast state, a frame whose delta brings coast_elapsed_ms to
\* coast_timeout_ms or more ends in Idle with dwell 0, whatever its gesture
\* and confidence.
C4_CoastTimeoutWins ==
  [][ ( /\ IsFrameStep /\ state \in CoastStates
        /\ coast_elapsed_ms + StepDelta >= coast_timeout_ms )
      => (state' = "Idle" /\ dwell_accumulator_ms' = 0) ]_vars

C4_Witness ==
  /\ last_call = [op |-> "process_frame", gesture |-> "open_palm", from |-> "ReadyCoast"]
  /\ current_confidence = 100
  /\ dwell_limit_ready_ms = 0
  /\ coast_elapsed_ms >= coast_timeout_ms
  /\ state = "Idle"

\* C5: from Ready a frame with a known gesture and confidence < conf_low
\* moves to ReadyCoast; from ReadyCoast a frame with confidence >= conf_low
\* before the timeout moves back to Ready; the dwell accumulator is unchanged
\* by the entry, by every step that stays in ReadyCoast, and by the return.
C5_ReadyCoastKeepsDwell ==
  [][ /\ ( /\ IsFrameStep /\ state = "Ready"
            /\ last_call'.gesture \in {"open_palm", "closed_fist"}
            /\ Lt(current_confidence', conf_low) )
          => (state' = "ReadyCoast" /\ dwell_accumulator_ms' = dwell_accumulator_ms)
      /\ (state = "ReadyCoast" /\ state' = "ReadyCoast")
          => dwell_accumulator_ms' = dwell_accumulator_ms
      /\ ( /\ IsFrameStep /\ state = "ReadyCoast"
            /\ Ge(current_confidence', conf_low)
            /\ coast_elapsed_ms + StepDelta < coast_timeout_ms )
          => (state' = "Ready" /\ dwell_accumulator_ms' = dwell_accumulator_ms) ]_vars

C5_Witness ==
  /\ last_call.op = "process_frame" /\ last_call.from = "ReadyCoast"
  /\ last_call.gesture = "thumbs_up"
  /\ state = "Ready"
  /\ dwell_accumulator_ms > 0
  /\ coast_elapsed_ms > 0

\* C6: force_coast maps Idle, Ready, CommitPointer to the paired Coast state,
\* changes nothing in a Coast state, and never changes the accumulators, the
\* last timestamp, the confidence or the limits.
C6_ForceCoastOnlyMovesState ==
  [][ last_call'.op = "force_coast" =>
        /\ state' = CASE state = "Idle" -> "IdleCoast"
                       [] state = "Ready" -> "ReadyCoast"
                       [] state = "CommitPointer" -> "CommitCoast"
                       [] OTHER -> state
        /\ UNCHANGED <<dwell_accumulator_ms, coast_elapsed_ms, last_frame_ms,
                       current_confidence, dwell_limit_ready_ms,
                       dwell_limit_commit_ms, coast_timeout_ms,
                       conf_high, conf_low>> ]_vars

C6_Witness ==
  /\ last_call.op = "force_coast" /\ last_call.from = "CommitPointer"
  /\ state = "CommitCoast"
  /\ current_confidence = 100
  /\ coast_elapsed_ms > 0

\* C7: in Idle a frame with confidence in [conf_low, conf_high) and a
\* non-negative delta keeps the state Idle, sets dwell to
\* max(0, dwell - 2*delta), never increases it, and brings it to 0 only when
\* dwell <= 2*delta.
C7_InertBandOnlyDecays ==
  [][ ( /\ IsFrameStep /\ state = "Idle"
        /\ Ge(current_confidence', conf_low) /\ Lt(current_confidence', conf_high)
        /\ StepDelta >= 0 )
      => /\ state' = "Idle"
         /\ dwell_accumulator_ms' = Max0(dwell_accumulator_ms - 2 * StepDelta)
         /\ dwell_accumulator_ms' <= dwell_accumulator_ms
         /\ dwell_accumulator_ms' = 0 => dwell_accumulator_ms <= 2 * StepDelta ]_vars

\* C8: after every operation coast_elapsed_ms >= 0, and it is nonzero only
\* while the state is a Coast variant.
C8_CoastElapsedOnlyInCoast ==
  /\ coast_elapsed_ms >= 0
  /\ coast_elapsed_ms # 0 => state \in CoastStates

\* C9: dwell_accumulator_ms >= 0 in every reachable state, for every input,
\* also a timestamp smaller than the previous one.
C9_DwellNonNegative == dwell_accumulator_ms >= 0

\* C10: while dwell_limit_ready_ms is 0 (set by configure), a frame handled
\* in Idle with "open_palm" and confidence >= conf_high ends in Ready,
\* whatever the dwell and the delta.
C10_ZeroLimitReadyAtOnce ==
  [][ ( /\ IsFrameStep /\ state = "Idle"
        /\ last_call'.gesture = "open_palm"
        /\ Ge(current_confidence', conf_high)
        /\ dwell_limit_ready_ms = 0 )
      => state' = "Ready" ]_vars

C10_Witness ==
  /\ last_call = [op |-> "process_frame", gesture |-> "open_palm", from |-> "Idle"]
  /\ dwell_limit_ready_ms = 0
  /\ first_frame_ms = last_frame_ms
  /\ state = "Ready"

\* C11: configure overwrites exactly the limits whose argument is present and
\* leaves every absent limit, the state, the accumulators, the last
\* timestamp, the confidence and the thresholds unchanged, in every state.
C11_ConfigureOnlySetsPresentLimits ==
  [][ last_call'.op = "configure" =>
        \A a \in DwellOptions, b \in DwellOptions, c \in CoastOptions :
          Store(configure(Self, a, b, c)) =>
            /\ dwell_limit_ready_ms' = IF a = None THEN dwell_limit_ready_ms ELSE a[1]
            /\ dwell_limit_commit_ms' = IF b = None THEN dwell_limit_commit_ms ELSE b[1]
            /\ coast_timeout_ms' = IF c = None THEN coast_timeout_ms ELSE c[1]
            /\ UNCHANGED <<state, dwell_accumulator_ms, coast_elapsed_ms,
                           last_frame_ms, current_confidence, conf_high, conf_low>> ]_vars

C11_Witness ==
  /\ last_call.op = "configure" /\ last_call.from = "ReadyCoast"
  /\ state = "ReadyCoast"
  /\ dwell_limit_ready_ms = 100 /\ dwell_limit_commit_ms = 0 /\ coast_timeout_ms = 100
  /\ dwell_accumulator_ms > 0 /\ coast_elapsed_ms > 0

\* a recognized label that does not satisfy the gate of the given state
NonGateLabel(st) ==
  IF st \in {"Ready", "ReadyCoast"} THEN "open_palm" ELSE "closed_fist"

\* from the current state, a frame with the unrecognized label and a frame
\* with the recognized non-gate label, at the same confidence and timestamp,
\* give the same state, dwell and coast time
UnknownLikeNonGate ==
  \A c \in Confidences, t \in Timestamps :
    LET u == process_frame(Self, "thumbs_up", c, t)
        r == process_frame(Self, NonGateLabel(state), c, t)
    IN /\ u.state = r.state
       /\ u.dwell_accumulator_ms = r.dwell_accumulator_ms
       /\ u.coast_elapsed_ms = r.coast_elapsed_ms

\* C12 (as stated): in every machine state an unrecognized label gives the
\* same resulting state, dwell and coast time as a recognized label that does
\* not satisfy the state's gate.
C12_UnknownLabelAsNoGesture == UnknownLikeNonGate

\* C12 (amended): the same, in every machine state other than Ready.
C12_UnknownLabelAsNoGestureOutsideReady == state # "Ready" => UnknownLikeNonGate

C12_Witness ==
  /\ last_call = [op |-> "process_frame", gesture |-> "thumbs_up", from |-> "CommitPointer"]
  /\ current_confidence = 30
  /\ state = "CommitCoast"

\* the edges of the state graph one process_frame call may take
FrameEdges ==
  ({"Idle"} \X {"Idle", "Ready", "IdleCoast"})
  \cup ({"IdleCoast"} \X {"IdleCoast", "Idle"})
  \cup ({"Ready"} \X {"Ready", "CommitPointer", "Idle", "ReadyCoast"})
  \cup ({"ReadyCoast"} \X {"ReadyCoast", "Ready", "Idle"})
  \cup ({"CommitPointer"} \X {"CommitPointer", "Ready", "CommitCoast"})
  \cup ({"CommitCoast"} \X {"CommitCoast", "CommitPointer", "Idle"})

\* C13: every process_frame call takes at most one edge of the state graph:
\* its (state before, state after) pair is in FrameEdges, also with the dwell
\* limits configured to 0.
C13_OneEdgePerFrame ==
  last_call.op = "process_frame" => <<last_call.from, state>> \in FrameEdges

C13_Witness ==
  /\ last_call = [op |-> "process_frame", gesture |-> "closed_fist", from |-> "ReadyCoast"]
  /\ current_confidence = 100
  /\ dwell_limit_ready_ms = 0 /\ dwell_limit_commit_ms = 0
  /\ state = "Ready"

\* the primary state a state belongs to (its family)
PrimaryOf(st) ==
  CASE st \in {"Idle", "IdleCoast"} -> "Idle"
    [] st \in {"Ready", "ReadyCoast"} -> "Ready"
    [] st \in {"CommitPointer", "CommitCoast"} -> "CommitPointer"

\* C14: after every process_frame call that moves the machine between
\* different primary families the dwell accumulator is 0.
C14_DwellResetOnPrimaryTransition ==
  (last_call.op = "process_frame" /\ PrimaryOf(last_call.from) # PrimaryOf(state))
    => dwell_accumulator_ms = 0

C14_Witness ==
  /\ last_call.op = "process_frame" /\ last_call.from = "ReadyCoast"
  /\ state = "Idle"
  /\ dwell_limit_commit_ms = 100
  /\ coast_elapsed_ms >= coast_timeout_ms
  /\ dwell_accumulator_ms = 0

\* C15: whenever the state is a Coast variant, coast_elapsed_ms equals the sum
\* of the deltas of the frames processed since the machine most recently
\* entered that Coast variant, through process_frame or through force_coast.
C15_CoastElapsedIsTimeInCoast ==
  state \in CoastStates => coast_elapsed_ms = coast_time_ms

\* C16: in Ready a frame whose gesture is neither "open_palm" nor
\* "closed_fist" ends in Idle with dwell 0 for every confidence, also below
\* conf_low; a "closed_fist" frame with confidence >= conf_high accumulates
\* dwell toward CommitPointer instead.
C16_ReadyUnknownLabelToIdle ==
  [][ /\ ( /\ IsFrameStep /\ state = "Ready"
            /\ last_call'.gesture \notin {"open_palm", "closed_fist"} )
          => (state' = "Idle" /\ dwell_accumulator_ms' = 0)
      /\ ( /\ IsFrameStep /\ state = "Ready"
            /\ last_call'.gesture = "closed_fist"
            /\ Ge(current_confidence', conf_high) )
          => IF dwell_accumulator_ms + StepDelta >= dwell_limit_commit_ms
             THEN state' = "CommitPointer" /\ dwell_accumulator_ms' = 0
             ELSE /\ state' = "Ready"
                  /\ dwell_accumulator_ms' = dwell_accumulator_ms + StepDelta ]_vars

C16_Witness ==
  /\ last_call = [op |-> "process_frame", gesture |-> "thumbs_up", from |-> "Ready"]
  /\ current_confidence = 30
  /\ state = "Idle"
  /\ dwell_accumulator_ms = 0

\* the timestamps left in the model allow another frame and are enough for
\* the coast timer to reach coast_timeout_ms
TimeoutWithinHorizon ==
  /\ ~is_nan(last_frame_ms)
  /\ last_frame_ms < 50 * MaxLiveTick
  /\ last_frame_ms + (coast_timeout_ms - coast_elapsed_ms) <= 50 * MaxLiveTick

C18_CoastBelowTimeoutAfterFrame ==
  ( /\ last_call.op = "process_frame"
    /\ coast_timeout_ms > 0
    /\ state \in CoastStates )
  => coast_elapsed_ms < coast_timeout_ms

C18_Witness ==
  /\ last_call.op = "process_frame" /\ last_call.from = "IdleCoast"
  /\ state = "IdleCoast"
  /\ coast_timeout_ms = 100
  /\ coast_elapsed_ms = 50
  /\ coast_time_ms = 0

\* C19: in every reachable state, state in {CommitPointer, CommitCoast}
\* implies dwell_accumulator_ms = 0.
C19_NoDwellWhileCommitted ==
  state \in {"CommitPointer", "CommitCoast"} => dwell_accumulator_ms = 0

C19_Witness ==
  /\ last_call = [op |-> "process_frame", gesture |-> "closed_fist", from |-> "Ready"]
  /\ dwell_limit_commit_ms = 100
  /\ state = "CommitPointer"
  /\ dwell_accumulator_ms = 0
====
